---- MODULE Spec2Model ----
(***************************************************************************)
(* count_transitions (src/unnamed/part_000, notebook cell at lines 358-372) *)
(* as a state machine: one frame per invocation, one action per statement   *)
(* group of the function.  A tree sequence is the pair of tskit tables the   *)
(* function reads: the sites (ancestral_state) and the mutations (site,      *)
(* derived_state, parent), with 0-based ids as in tskit.                     *)
(***************************************************************************)
EXTENDS Integers, Sequences, FiniteSets

VARIABLES ts, alleles, shards, order, frames, merged, mergedFrom,
          vcf, samples, build, nn

\* The objects of the sample-data build and the call of
\* find_nearest_neighbour_populations (src/unnamed/part_001).
vcfVars == <<vcf, samples, build, nn>>

vars == <<ts, alleles, shards, order, frames, merged, mergedFrom, vcfVars>>

(* ------------------------------ bounds ---------------------------------- *)

MaxSites == 2

MaxMutations == 2

MaxVariants == 2

MaxSamples == 2

MaxNodes == 4

\* The states the enumerated inputs carry: two letters of the alphabet and
\* one symbol outside it.
ObservedStates == {"A", "C", "N"}

ShardedStates == {"A", "C"}

(* --------------------------- program constants -------------------------- *)

\* tskit.NULL, the parent of a mutation that has no parent mutation.
NULL == -1

\* msprime.JC69().alleles / msprime.HKY(kappa=20).alleles, the alphabet every
\* call of count_transitions in the notebook passes.
Nucleotides == <<"A", "C", "G", "T">>

None == [kind |-> "None", value |-> <<>>]

NotReturned == [kind |-> "", value |-> <<>>]

ValueError == "ValueError"

(* ------------------------- the tree sequence ---------------------------- *)

\* ts.num_sites / ts.num_mutations
num_sites(t) == Len(t.sites)

num_mutations(t) == Len(t.mutations)

\* ts.mutation(id): the row of the mutation table with this id.
mutation(t, id) == t.mutations[id + 1]

\* ts.site(id)
site(t, id) == t.sites[id + 1]

RECURSIVE IdsOfSite(_, _, _)
\* s.mutations: the ids of the mutations of site s, in id order, from id on.
IdsOfSite(t, s, id) ==
    IF id >= num_mutations(t) THEN <<>>
    ELSE IF mutation(t, id).site = s
         THEN <<id>> \o IdsOfSite(t, s, id + 1)
         ELSE IdsOfSite(t, s, id + 1)

RECURSIVE IdsFromSite(_, _, _)
IdsFromSite(t, s, id) ==
    IF id >= num_mutations(t) THEN <<>>
    ELSE IF mutation(t, id).site >= s
         THEN <<id>> \o IdsFromSite(t, s, id + 1)
         ELSE IdsFromSite(t, s, id + 1)

site_and_later_mutations(t, s) == IdsFromSite(t, s, 0)

site_mutations(t, s) == IdsOfSite(t, s, 0)

\* What tskit requires of the tables: mutations are sorted by site, and the
\* parent of a mutation is an earlier mutation at the same site.
WellFormed(t) ==
    \A i \in 1..Len(t.mutations) :
        /\ t.mutations[i].site < Len(t.sites)
        /\ (i > 1 => t.mutations[i - 1].site <= t.mutations[i].site)
        /\ \/ t.mutations[i].parent = NULL
           \/ /\ t.mutations[i].parent >= 0
              /\ t.mutations[i].parent < i - 1
              /\ t.mutations[t.mutations[i].parent + 1].site = t.mutations[i].site

SiteTables(n, states) == [1..n -> [ancestral_state : states]]

MutationTables(n, m, states) ==
    [1..m -> [site : 0..(n - 1), derived_state : states, parent : NULL..(m - 2)]]

\* Every well-formed tree sequence of at most MaxSites sites and MaxMutations
\* mutations whose states are drawn from `states`.
TreeSequences(states) ==
    UNION { { t \in [sites : SiteTables(n, states),
                     mutations : MutationTables(n, m, states)] : WellFormed(t) } :
            n \in 0..MaxSites, m \in 0..MaxMutations }

\* The three sites of the worked scenario: A -> C; G -> T -> A (stacked);
\* C without mutations.
Scenario ==
    [sites |-> << [ancestral_state |-> "A"], [ancestral_state |-> "G"],
                  [ancestral_state |-> "C"] >>,
     mutations |-> << [site |-> 0, derived_state |-> "C", parent |-> NULL],
                      [site |-> 1, derived_state |-> "T", parent |-> NULL],
                      [site |-> 1, derived_state |-> "A", parent |-> 1] >>]

Inputs == TreeSequences(ObservedStates) \cup {Scenario}

\* The inputs of the sharded runs: states of the alphabet only, so that every
\* invocation yields a table to merge.
ShardedInputs == TreeSequences(ShardedStates) \cup {Scenario}

(* ------------------------------ sharding -------------------------------- *)

Rank(S, x) == Cardinality({y \in S : y < x})

Nth(S, i) == CHOOSE x \in S : Rank(S, x) = i

\* The tree sequence that keeps the sites in S with all of their mutations
\* (ids renumbered, parents kept).
Shard(t, S) ==
    LET keptM == {id \in 0..(num_mutations(t) - 1) : mutation(t, id).site \in S}
    IN [sites |-> [i \in 1..Cardinality(S) |-> site(t, Nth(S, i - 1))],
        mutations |->
            [i \in 1..Cardinality(keptM) |->
                LET mu == mutation(t, Nth(keptM, i - 1))
                IN [site |-> Rank(S, mu.site),
                    derived_state |-> mu.derived_state,
                    parent |-> IF mu.parent = NULL THEN NULL
                               ELSE Rank(keptM, mu.parent)]]]

AllSites(t) == 0..(num_sites(t) - 1)

\* The bijections of 0..(n - 1).
Permutations(n) ==
    {p \in [0..(n - 1) -> 0..(n - 1)] : \A x \in 0..(n - 1) : \E y \in 0..(n - 1) : p[y] = x}

Identity(n) == [x \in 0..(n - 1) |-> x]

\* The order that leaves the tables of t as they are.
SameOrder(t) == [sites |-> Identity(num_sites(t)), mutations |-> Identity(num_mutations(t))]

\* The tree sequence with the same sites and events as t in another order:
\* site x becomes site o.sites[x], event id becomes event o.mutations[id],
\* and every parent reference follows its event.
Permuted(t, o) ==
    [sites |-> [i \in 1..num_sites(t) |->
                   site(t, CHOOSE x \in AllSites(t) : o.sites[x] = i - 1)],
     mutations |->
        [i \in 1..num_mutations(t) |->
            LET mu == mutation(t, CHOOSE x \in 0..(num_mutations(t) - 1) :
                                      o.mutations[x] = i - 1)
            IN [site |-> o.sites[mu.site],
                derived_state |-> mu.derived_state,
                parent |-> IF mu.parent = NULL THEN NULL
                           ELSE o.mutations[mu.parent]]]]

\* The ts argument of invocation w.
Arg(w) ==
    LET t == IF shards[w] = AllSites(ts) THEN ts ELSE Shard(ts, shards[w])
    IN IF order[w] = SameOrder(t) THEN t ELSE Permuted(t, order[w])

(* ---------------------------- the function ------------------------------ *)

OnesCounts(k) == [i \in 0..(k - 1) |-> [j \in 0..(k - 1) |-> 1]]

\* counts = np.zeros((len(alleles), len(alleles)), dtype='int')
ZeroCounts(k) == [i \in 0..(k - 1) |-> [j \in 0..(k - 1) |-> 0]]

RECURSIVE scan(_, _, _)
\* list.index: the first position from i on that holds x.
scan(l, x, i) ==
    IF i >= Len(l) THEN [raises |-> TRUE, value |-> 0]
    ELSE IF l[i + 1] = x THEN [raises |-> FALSE, value |-> i]
         ELSE scan(l, x, i + 1)

indexOrZero(l, x) == [raises |-> FALSE, value |-> scan(l, x, 0).value]

indexFromEnd(l, x) ==
    [raises |-> scan(l, x, 0).raises,
     value |-> IF scan(l, x, 0).raises THEN 0 ELSE Len(l) - 1 - scan(l, x, 0).value]

\* alleles.index(x): raises ValueError when x is not in the list.
index(l, x) == scan(l, x, 0)

AncestralOnly(t, aa, m) == aa

FirstEventAllele(t, aa, m) ==
    IF m.parent # NULL
    THEN mutation(t, site_mutations(t, m.site)[1]).derived_state
    ELSE aa

\* pa = aa; if m.parent != tskit.NULL: pa = ts.mutation(m.parent).derived_state
ParentAllele(t, aa, m) ==
    IF m.parent # NULL THEN mutation(t, m.parent).derived_state ELSE aa

IncrementChanges(fs, w, i, j) ==
    IF i = j THEN fs ELSE [fs EXCEPT ![w].counts[i][j] = @ + 1]

IncrementByTwo(fs, w, i, j) == [fs EXCEPT ![w].counts[i][j] = @ + 2]

IncrementShared(fs, w, i, j) ==
    [v \in DOMAIN fs |->
        IF fs[v].pc \in {"sites", "mutations"} \/ v = w
        THEN [fs[v] EXCEPT !.counts[i][j] = @ + 1]
        ELSE fs[v]]

\* counts[i, j] += 1 on the invocation's own array
Increment(fs, w, i, j) == [fs EXCEPT ![w].counts[i][j] = @ + 1]

RaisePrinting(f) ==
    [f EXCEPT !.pc = "raised", !.exc = ValueError,
              !.stdout = <<[label |-> "", cells |-> f.counts[0]]>>]

\* The exception leaves the function: nothing after the loop runs.
Raise(f) == [f EXCEPT !.pc = "raised", !.exc = ValueError]

TransposedLines(l, counts) ==
    <<[label |-> "", cells |-> l]>> \o
    [j \in 1..Len(l) |->
        [label |-> l[j], cells |-> [i \in 1..Len(l) |-> counts[i - 1][j - 1]]]]

\* print("\t", "\t".join(alleles)); for j, a in enumerate(alleles):
\*     print(f"{a}\t", "\t".join(map(str, counts[j])))
PrintedLines(l, counts) ==
    <<[label |-> "", cells |-> l]>> \o
    [j \in 1..Len(l) |->
        [label |-> l[j], cells |-> [i \in 1..Len(l) |-> counts[j - 1][i - 1]]]]

\* The caller's running total before any table is merged into it.
EmptyTotal ==
    [i \in 0..(Len(Nucleotides) - 1) |-> [j \in 0..(Len(Nucleotides) - 1) |-> 0]]

\* No call of find_nearest_neighbour_populations is under way.
NoNeighbours == nn = [pc |-> "idle"]

\* No sample-data build is under way.
NoBuild ==
    /\ vcf = [samples |-> <<>>, variants |-> <<>>]
    /\ samples = [populations |-> <<>>, individuals |-> <<>>, sites |-> <<>>]
    /\ build = [pc |-> "idle"]

NewFrame ==
    [pc |-> "call", s |-> 0, k |-> 0, aa |-> "", counts |-> <<>>,
     stdout |-> <<>>, ret |-> NotReturned, exc |-> ""]

Finished(f) == f.pc \in {"done", "raised"}

\* The sequential invocation over all sites runs first; the invocations over
\* the shards start once it has finished and then run in parallel.
Runnable(w) == w = "whole" \/ Finished(frames["whole"])

CallKeepingCounts(w) ==
    /\ Runnable(w)
    /\ frames[w].pc = "call"
    /\ frames' = [frames EXCEPT
          ![w].pc = "sites",
          ![w].counts = IF \E v \in DOMAIN frames : Finished(frames[v])
                        THEN frames[CHOOSE v \in DOMAIN frames : Finished(frames[v])].counts
                        ELSE ZeroCounts(Len(alleles))]
    /\ UNCHANGED <<ts, alleles, shards, order, merged, mergedFrom, vcfVars>>

\* def count_transitions(ts, alleles): counts = np.zeros(...)
Call(w) ==
    /\ Runnable(w)
    /\ frames[w].pc = "call"
    /\ frames' = [frames EXCEPT ![w].pc = "sites",
                                ![w].counts = ZeroCounts(Len(alleles))]
    /\ UNCHANGED <<ts, alleles, shards, order, merged, mergedFrom, vcfVars>>

\* for s in ts.sites(): aa = s.ancestral_state
EnterSite(w) ==
    /\ frames[w].pc = "sites"
    /\ frames[w].s < num_sites(Arg(w))
    /\ frames' = [frames EXCEPT ![w].pc = "mutations",
                                ![w].k = 0,
                                ![w].aa = site(Arg(w), frames[w].s).ancestral_state]
    /\ UNCHANGED <<ts, alleles, shards, order, merged, mergedFrom, vcfVars>>

\* for m in s.mutations: ... counts[alleles.index(pa), alleles.index(da)] += 1
Tally(w) ==
    LET f == frames[w]
        t == Arg(w)
        ids == site_mutations(t, f.s)
    IN /\ f.pc = "mutations"
       /\ f.k < Len(ids)
       /\ LET m == mutation(t, ids[f.k + 1])
              pa == ParentAllele(t, f.aa, m)
              da == m.derived_state
              i == index(alleles, pa)
              j == index(alleles, da)
          IN IF i.raises \/ j.raises
             THEN frames' = [frames EXCEPT ![w] = Raise(f)]
             ELSE frames' = [Increment(frames, w, i.value, j.value)
                                EXCEPT ![w].k = f.k + 1]
       /\ UNCHANGED <<ts, alleles, shards, order, merged, mergedFrom, vcfVars>>

\* the inner loop is exhausted: on to the next site
LeaveSite(w) ==
    /\ frames[w].pc = "mutations"
    /\ frames[w].k = Len(site_mutations(Arg(w), frames[w].s))
    /\ frames' = [frames EXCEPT ![w].pc = "sites", ![w].s = @ + 1]
    /\ UNCHANGED <<ts, alleles, shards, order, merged, mergedFrom, vcfVars>>

\* the outer loop is exhausted: print the table, fall off the end (None)
PrintTable(w) ==
    /\ frames[w].pc = "sites"
    /\ frames[w].s = num_sites(Arg(w))
    /\ frames' = [frames EXCEPT ![w].pc = "done",
                                ![w].stdout = PrintedLines(alleles, frames[w].counts),
                                ![w].ret = None]
    /\ UNCHANGED <<ts, alleles, shards, order, merged, mergedFrom, vcfVars>>

Init ==
    /\ ts \in Inputs
    /\ alleles = Nucleotides
    /\ shards = [w \in {"whole"} |-> AllSites(ts)]
    /\ order = [w \in {"whole"} |-> SameOrder(ts)]
    /\ frames = [w \in {"whole"} |-> NewFrame]
    /\ merged = EmptyTotal
    /\ mergedFrom = {}
    /\ NoBuild
    /\ NoNeighbours

Next ==
    \/ \E w \in DOMAIN frames : Call(w)
    \/ \E w \in DOMAIN frames : EnterSite(w)
    \/ \E w \in DOMAIN frames : Tally(w)
    \/ \E w \in DOMAIN frames : LeaveSite(w)
    \/ \E w \in DOMAIN frames : PrintTable(w)

Spec == Init /\ [][Next]_vars

(* ------------------- sharded, parallel use of the function -------------- *)

\* The table a caller reads back from what an invocation printed.  Each
\* invocation's output is captured on its own (one process per shard), so the
\* lines of two invocations never mix.
ParsedTable(lines) ==
    [i \in 0..(Len(lines) - 2) |->
        [j \in 0..(Len(lines) - 2) |-> lines[i + 2].cells[j + 1]]]

\* Elementwise addition of two count matrices.
MatrixSum(x, y) == [i \in DOMAIN x |-> [j \in DOMAIN x[i] |-> x[i][j] + y[i][j]]]

\* The caller adds the table of a finished shard invocation to the total.
Merge(w) ==
    /\ w # "whole"
    /\ frames[w].pc = "done"
    /\ w \notin mergedFrom
    /\ merged' = MatrixSum(merged, ParsedTable(frames[w].stdout))
    /\ mergedFrom' = mergedFrom \cup {w}
    /\ UNCHANGED <<ts, alleles, shards, order, frames, vcfVars>>

InitShards ==
    /\ ts \in ShardedInputs
    /\ alleles = Nucleotides
    /\ \E S \in SUBSET AllSites(ts) :
          shards = [w \in {"whole", "a", "b"} |->
                       IF w = "whole" THEN AllSites(ts)
                       ELSE IF w = "a" THEN S ELSE AllSites(ts) \ S]
    /\ order = [w \in {"whole", "a", "b"} |-> SameOrder(Shard(ts, shards[w]))]
    /\ frames = [w \in {"whole", "a", "b"} |-> NewFrame]
    /\ merged = EmptyTotal
    /\ mergedFrom = {}
    /\ NoBuild
    /\ NoNeighbours

NextShards ==
    \/ Next
    \/ \E w \in DOMAIN frames : Merge(w)

SpecShards == InitShards /\ [][NextShards]_vars

(* ---------------------- a second call of the function ------------------- *)

\* The sites of t that have no mutation event.
EmptySites(t) ==
    {x \in AllSites(t) : \A id \in 0..(num_mutations(t) - 1) : mutation(t, id).site # x}

\* The function is called on ts and then on ts without some of its sites
\* that have no mutation event (without none of them: the same input again).
InitRepeat ==
    /\ ts \in Inputs
    /\ alleles = Nucleotides
    /\ \E E \in SUBSET EmptySites(ts) :
          shards = [w \in {"whole", "a"} |->
                       IF w = "whole" THEN AllSites(ts) ELSE AllSites(ts) \ E]
    /\ order = [w \in {"whole", "a"} |-> SameOrder(Shard(ts, shards[w]))]
    /\ frames = [w \in {"whole", "a"} |-> NewFrame]
    /\ merged = EmptyTotal
    /\ mergedFrom = {}
    /\ NoBuild
    /\ NoNeighbours

SpecRepeat == InitRepeat /\ [][Next]_vars

\* The permutations of the events of t that keep every event at its site.
WithinSites(t) ==
    {p \in Permutations(num_mutations(t)) :
        \A id \in 0..(num_mutations(t) - 1) : mutation(t, p[id]).site = mutation(t, id).site}

\* The function is called on ts and then on ts with its sites in another
\* order and the events of each site in another order.
InitOrder ==
    /\ ts \in ShardedInputs
    /\ alleles = Nucleotides
    /\ shards = [w \in {"whole", "a"} |-> AllSites(ts)]
    /\ \E ps \in Permutations(num_sites(ts)), pm \in WithinSites(ts) :
          order = [w \in {"whole", "a"} |->
                      IF w = "whole" THEN SameOrder(ts)
                      ELSE [sites |-> ps, mutations |-> pm]]
    /\ frames = [w \in {"whole", "a"} |-> NewFrame]
    /\ merged = EmptyTotal
    /\ mergedFrom = {}
    /\ NoBuild
    /\ NoNeighbours

SpecOrder == InitOrder /\ [][Next]_vars

(* ------------- the sample-data build (src/unnamed/part_001) ------------- *)

\* tskit.MISSING_DATA
MISSING_DATA == -1

\* allele_chars = set("ATGCatgc*")
allele_chars == {"A", "T", "G", "C", "a", "t", "g", "c", "*"}

\* str.upper, character by character (a string is its sequence of characters)
upper(str) ==
    [i \in 1..Len(str) |->
        CASE str[i] = "a" -> "A"
          [] str[i] = "t" -> "T"
          [] str[i] = "g" -> "G"
          [] str[i] = "c" -> "C"
          [] str[i] = "n" -> "N"
          [] OTHER -> str[i]]

WholeField(str, i) == str

RECURSIVE FirstField(_, _)
\* str.split("|")[0]: the characters before the first "|", from position i on
FirstField(str, i) ==
    IF i > Len(str) \/ str[i] = "|" THEN <<>>
    ELSE <<str[i]>> \o FirstField(str, i + 1)

\* variant.INFO.get("AA", ".")
InfoAA(v) == IF "AA" \in DOMAIN v.INFO THEN v.INFO["AA"] ELSE <<".">>

\* set(a) - allele_chars
OtherChars(a) == {a[i] : i \in 1..Len(a)} \ allele_chars

\* alleles = [variant.REF.upper()] + [v.upper() for v in variant.ALT]
VariantAlleles(v) == <<upper(v.REF)>> \o [i \in 1..Len(v.ALT) |-> upper(v.ALT[i])]

AllUnphased(v) == \A i \in 1..Len(v.genotypes) : ~v.genotypes[i][3]

\* any([not phased for _, _, phased in variant.genotypes])
AnyUnphased(v) == \E i \in 1..Len(v.genotypes) : ~v.genotypes[i][3]

RECURSIVE Flatten(_, _)
\* genotypes = [g for row in variant.genotypes for g in row[0:2]]
Flatten(rows, i) ==
    IF i > Len(rows) THEN <<>>
    ELSE <<rows[i][1], rows[i][2]>> \o Flatten(rows, i + 1)

NeverDuplicate(pos, v) == FALSE

\* if pos == variant.POS
IsDuplicate(pos, v) == pos = v.POS

\* The names of the samples of the VCF: the first character tells the
\* population.
SampleNames == {<<"8", "L">>, <<"F", "R">>, <<"X">>}

\* The rows of variant.genotypes for n samples: every genotype phased, or
\* the last sample's unphased.
GenotypeTables(n) ==
    {[i \in 1..n |-> <<0, 1, TRUE>>]} \cup
    {[i \in 1..n |-> <<1, 0, i # n>>] : x \in {y \in {n} : y > 0}}

AltLists == { << <<"t">> >>, << <<"N">> >>, << <<"*">> >> }

InfoFields ==
    { <<>> } \cup
    { [k \in {"AA"} |-> aa] :
        aa \in { <<".">>, <<>>, <<"t", "|", "G">>, <<"a">> } }

\* The records of a VCF of n variants over the given ALT lists, INFO fields
\* and genotype tables, sorted by position: the first at position 1, every
\* other at the position of the one before it or at the next position.
VariantLists(n, alts, infos, tables) ==
    { [i \in 1..n |->
          [POS |-> 1 + Cardinality({j \in 2..i : ~dup[j]}),
           REF |-> <<"a">>,
           ALT |-> core[i].ALT,
           INFO |-> core[i].INFO,
           genotypes |-> core[i].genotypes]] :
      core \in [1..n -> [ALT : alts, INFO : infos, genotypes : tables]],
      dup \in [2..n -> BOOLEAN] }

SitesBeforeIndividuals ==
    <<"add_populations", "add_diploid_sites", "add_diploid_individuals">>

\* The statements of the with block of the build cell, in their order.
Statements == <<"add_populations", "add_diploid_individuals", "add_diploid_sites">>

\* The statement that runs when `stmt` has returned; the block ends after the
\* last one.
Following(stmt) ==
    LET k == CHOOSE x \in 1..Len(Statements) : Statements[x] = stmt
    IN IF k = Len(Statements) THEN "done" ELSE Statements[k + 1]

\* with tsinfer.SampleData(...) as samples: nothing added yet
NewBuild ==
    [pc |-> "add_populations", populations |-> <<>>, j |-> 0, i |-> 0,
     pos |-> 0, exc |-> "", stdout |-> <<>>]

EmptySamples == [populations |-> <<>>, individuals |-> <<>>, sites |-> <<>>]

swapped_lookup(first_letter) == IF first_letter = "8" THEN 1 ELSE 0

\* pop_lookup: the ids samples.add_population returned
pop_lookup(first_letter) == IF first_letter = "8" THEN 0 ELSE 1

\* add_populations(vcf, samples): adds the two populations, then returns the
\* population id of every sample, or fails on a first letter it does not know
AddPopulations ==
    /\ build.pc = "add_populations"
    /\ samples' = [samples EXCEPT !.populations =
                      @ \o << [metadata |-> [country |-> "Norway"]],
                              [metadata |-> [country |-> "France"]] >>]
    /\ LET samples_first_letter ==
               [k \in 1..Len(vcf.samples) |-> vcf.samples[k][1]]
       IN IF \E k \in 1..Len(vcf.samples) : samples_first_letter[k] \notin {"8", "F"}
          THEN build' = [build EXCEPT !.pc = "raised", !.exc = "KeyError"]
          ELSE build' = [build EXCEPT
                    !.pc = Following("add_populations"),
                    !.populations = [k \in 1..Len(vcf.samples) |->
                                        pop_lookup(samples_first_letter[k])]]
    /\ UNCHANGED <<ts, alleles, shards, order, frames, merged, mergedFrom, nn, vcf>>

\* add_diploid_individuals: samples.add_individual for the next sample
AddIndividual ==
    /\ build.pc = "add_diploid_individuals"
    /\ build.j < Len(vcf.samples)
    /\ samples' = [samples EXCEPT !.individuals =
                      Append(@, [ploidy |-> 2,
                                 metadata |-> [name |-> vcf.samples[build.j + 1]],
                                 population |-> build.populations[build.j + 1]])]
    /\ build' = [build EXCEPT !.j = @ + 1]
    /\ UNCHANGED <<ts, alleles, shards, order, frames, merged, mergedFrom, nn, vcf>>

\* the zip of samples and populations is exhausted: the function returns
EndIndividuals ==
    /\ build.pc = "add_diploid_individuals"
    /\ build.j = Len(vcf.samples)
    /\ build' = [build EXCEPT !.pc = Following("add_diploid_individuals")]
    /\ UNCHANGED <<ts, alleles, shards, order, frames, merged, mergedFrom, nn, vcf, samples>>

\* add_diploid_sites(vcf, samples): allele_chars = ...; pos = 0
EnterSites ==
    /\ build.pc = "add_diploid_sites"
    /\ build' = [build EXCEPT !.pc = "variants", !.pos = 0]
    /\ UNCHANGED <<ts, alleles, shards, order, frames, merged, mergedFrom, nn, vcf, samples>>

ReadVariantAddingFirst ==
    /\ build.pc = "variants"
    /\ build.i < Len(vcf.variants)
    /\ LET variant == vcf.variants[build.i + 1]
           valleles == VariantAlleles(variant)
           ancestral == upper(FirstField(InfoAA(variant), 1))
           missing == ancestral = <<".">> \/ ancestral = <<>>
           found == index(valleles, ancestral)
           ignoring == [k \in 1..Len(valleles) |->
                           [msg |-> "Ignoring site", pos |-> variant.POS,
                            allele |-> valleles[k]]]
           invalid(m) == OtherChars(m.allele) # {}
       IN IF IsDuplicate(build.pos, variant)
          THEN /\ build' = [build EXCEPT
                     !.i = @ + 1,
                     !.stdout = Append(@, [msg |-> "Duplicate entries",
                                           pos |-> build.pos, allele |-> <<>>])]
               /\ UNCHANGED samples
          ELSE IF AnyUnphased(variant)
          THEN /\ build' = [build EXCEPT !.pos = variant.POS, !.pc = "raised",
                                         !.exc = ValueError]
               /\ UNCHANGED samples
          ELSE IF ~missing /\ found.raises
          THEN /\ build' = [build EXCEPT !.pos = variant.POS, !.pc = "raised",
                                         !.exc = ValueError]
               /\ samples' = [samples EXCEPT !.sites =
                     Append(@, [position |-> variant.POS,
                                genotypes |-> Flatten(variant.genotypes, 1),
                                alleles |-> valleles,
                                ancestral_allele |-> MISSING_DATA])]
          ELSE /\ build' = [build EXCEPT
                     !.pos = variant.POS,
                     !.i = @ + 1,
                     !.stdout = @ \o SelectSeq(ignoring, invalid)]
               /\ samples' = [samples EXCEPT !.sites =
                     Append(@, [position |-> variant.POS,
                                genotypes |-> Flatten(variant.genotypes, 1),
                                alleles |-> valleles,
                                ancestral_allele |->
                                    IF missing THEN MISSING_DATA ELSE found.value])]
    /\ UNCHANGED <<ts, alleles, shards, order, frames, merged, mergedFrom, nn, vcf>>

\* for variant in vcf: the body of the loop for the next variant
ReadVariant ==
    /\ build.pc = "variants"
    /\ build.i < Len(vcf.variants)
    /\ LET variant == vcf.variants[build.i + 1]
           valleles == VariantAlleles(variant)
           ancestral == upper(FirstField(InfoAA(variant), 1))
           missing == ancestral = <<".">> \/ ancestral = <<>>
           found == index(valleles, ancestral)
           ignoring == [k \in 1..Len(valleles) |->
                           [msg |-> "Ignoring site", pos |-> variant.POS,
                            allele |-> valleles[k]]]
           invalid(m) == OtherChars(m.allele) # {}
       IN IF IsDuplicate(build.pos, variant)
          THEN /\ build' = [build EXCEPT
                     !.i = @ + 1,
                     !.stdout = Append(@, [msg |-> "Duplicate entries",
                                           pos |-> build.pos, allele |-> <<>>])]
               /\ UNCHANGED samples
          ELSE IF AnyUnphased(variant)
          THEN /\ build' = [build EXCEPT !.pos = variant.POS, !.pc = "raised",
                                         !.exc = ValueError]
               /\ UNCHANGED samples
          ELSE IF ~missing /\ found.raises
          THEN /\ build' = [build EXCEPT !.pos = variant.POS, !.pc = "raised",
                                         !.exc = ValueError]
               /\ UNCHANGED samples
          ELSE /\ build' = [build EXCEPT
                     !.pos = variant.POS,
                     !.i = @ + 1,
                     !.stdout = @ \o SelectSeq(ignoring, invalid)]
               /\ samples' = [samples EXCEPT !.sites =
                     Append(@, [position |-> variant.POS,
                                genotypes |-> Flatten(variant.genotypes, 1),
                                alleles |-> valleles,
                                ancestral_allele |->
                                    IF missing THEN MISSING_DATA ELSE found.value])]
    /\ UNCHANGED <<ts, alleles, shards, order, frames, merged, mergedFrom, nn, vcf>>

\* the loop over the variants is exhausted: add_diploid_sites returns
EndSites ==
    /\ build.pc = "variants"
    /\ build.i = Len(vcf.variants)
    /\ build' = [build EXCEPT !.pc = Following("add_diploid_sites")]
    /\ UNCHANGED <<ts, alleles, shards, order, frames, merged, mergedFrom, nn, vcf, samples>>

\* No count_transitions call is under way.
NoCount ==
    /\ ts = [sites |-> <<>>, mutations |-> <<>>]
    /\ alleles = Nucleotides
    /\ shards = <<>>
    /\ order = <<>>
    /\ frames = <<>>
    /\ merged = EmptyTotal
    /\ mergedFrom = {}

\* The build cell on a VCF of at most MaxSamples samples.
InitBuild ==
    /\ NoCount
    /\ NoNeighbours
    /\ \E n \in 0..MaxSamples, m \in 0..MaxVariants :
          \E names \in [1..n -> SampleNames] :
              \E vs \in VariantLists(m, { << <<"t">> >> }, { <<>> }, GenotypeTables(n)) :
                  vcf = [samples |-> names, variants |-> vs]
    /\ samples = EmptySamples
    /\ build = NewBuild

\* The build cell on a VCF of two samples with variants of every kind.
InitSites ==
    /\ NoCount
    /\ NoNeighbours
    /\ \E m \in 0..MaxVariants :
          \E vs \in VariantLists(m, AltLists, InfoFields, GenotypeTables(2)) :
              vcf = [samples |-> << <<"8", "L">>, <<"F", "R">> >>, variants |-> vs]
    /\ samples = EmptySamples
    /\ build = NewBuild

NextBuild ==
    \/ AddPopulations
    \/ AddIndividual
    \/ EndIndividuals
    \/ EnterSites
    \/ ReadVariant
    \/ EndSites

SpecBuild == InitBuild /\ [][NextBuild]_vars

SpecSites == InitSites /\ [][NextBuild]_vars

(* ----- find_nearest_neighbour_populations (src/unnamed/part_001) -------- *)

\* The populations a node of ts_dated can belong to.
Populations == {0, 1, 2}

\* The local trees over at most MaxNodes nodes: the parent of every node is an
\* older node (a larger id) or tskit.NULL; a node may have one child only.
Trees ==
    UNION { [0..(n - 1) -> NULL..(n - 1)] : n \in 1..MaxNodes }

IsTree(par) == \A u \in DOMAIN par : par[u] = NULL \/ par[u] > u

RECURSIVE Under(_, _, _)
\* Node v is node u or a descendant of u.
Under(par, u, v) ==
    IF v = u THEN TRUE
    ELSE IF par[v] = NULL THEN FALSE
    ELSE Under(par, u, par[v])

\* t.leaves(u): the nodes under u that have no child, as a list.
leaves(par, u) ==
    LET ls == {v \in DOMAIN par : Under(par, u, v) /\ \A c \in DOMAIN par : par[c] # v}
    IN [i \in 1..Cardinality(ls) |-> Nth(ls, i - 1)]

RECURSIVE GCD(_, _)
GCD(a, b) == IF b = 0 THEN a ELSE GCD(b, a % b)

\* A number as a fraction in lowest terms; the integer 0 of `return (0, 0)`
\* and the float 0.0 are the same number.
Zero == [num |-> 0, den |-> 1]

FloorQuotient(a, b) == [num |-> a \div b, den |-> 1]

\* a / b for integers a >= 0 and b > 0
Quotient(a, b) == [num |-> a \div GCD(a, b), den |-> b \div GCD(a, b)]

\* sum(1 for pop in relative_populations if pop == 0)
CountOf(pops, x) == Cardinality({i \in 1..Len(pops) : pops[i] = x})

\* The call find_nearest_neighbour_populations(t, focal_sample), entered.
NewCall(par, pops, focal) ==
    [pc |-> "call", t |-> par, population |-> pops, focal_sample |-> focal,
     p |-> NULL, children |-> <<>>, relative_populations |-> <<>>,
     pop_proportions |-> <<>>, k |-> 0, ret |-> <<>>, exc |-> ""]

\* p = t.parent(focal_sample); if p == -1: return (0, 0)
FindParent ==
    /\ nn.pc = "call"
    /\ LET p == nn.t[nn.focal_sample]
       IN IF p = -1
          THEN nn' = [nn EXCEPT !.p = p, !.pc = "done", !.ret = <<Zero, Zero>>]
          ELSE nn' = [nn EXCEPT !.p = p, !.pc = "children"]
    /\ UNCHANGED <<ts, alleles, shards, order, frames, merged, mergedFrom, vcf, samples, build>>

\* children = [...]; relative_populations = [...]; pop_proportions = {}
ListChildren ==
    /\ nn.pc = "children"
    /\ LET children == SelectSeq(leaves(nn.t, nn.p), LAMBDA c : c # nn.focal_sample)
       IN nn' = [nn EXCEPT
                    !.children = children,
                    !.relative_populations =
                        [i \in 1..Len(children) |-> nn.population[children[i]]],
                    !.pop_proportions = <<>>,
                    !.k = 0,
                    !.pc = "proportions"]
    /\ UNCHANGED <<ts, alleles, shards, order, frames, merged, mergedFrom, vcf, samples, build>>

\* for pop in relative_populations: pop_proportions[pop] += 1
TallyPopulation ==
    /\ nn.pc = "proportions"
    /\ nn.k < Len(nn.relative_populations)
    /\ LET pop == nn.relative_populations[nn.k + 1]
           seen == IF pop \in DOMAIN nn.pop_proportions THEN nn.pop_proportions[pop] ELSE 0
       IN nn' = [nn EXCEPT
                    !.pop_proportions =
                        [x \in DOMAIN nn.pop_proportions \cup {pop} |->
                            IF x = pop THEN seen + 1 ELSE nn.pop_proportions[x]],
                    !.k = @ + 1]
    /\ UNCHANGED <<ts, alleles, shards, order, frames, merged, mergedFrom, vcf, samples, build>>

\* count_pop_0, count_pop_1; the two divisions by len(relative_populations);
\* return prop_pop_0, prop_pop_1
Divide ==
    /\ nn.pc = "proportions"
    /\ nn.k = Len(nn.relative_populations)
    /\ LET count_pop_0 == CountOf(nn.relative_populations, 0)
           count_pop_1 == Len(nn.relative_populations) - count_pop_0
       IN IF Len(nn.relative_populations) = 0
          THEN nn' = [nn EXCEPT !.pc = "raised", !.exc = "ZeroDivisionError"]
          ELSE nn' = [nn EXCEPT
                         !.pc = "done",
                         !.ret = <<Quotient(count_pop_0, Len(nn.relative_populations)),
                                   Quotient(count_pop_1, Len(nn.relative_populations))>>]
    /\ UNCHANGED <<ts, alleles, shards, order, frames, merged, mergedFrom, vcf, samples, build>>

\* The function called on a local tree, the populations of its nodes and a
\* focal node.
InitNeighbours ==
    /\ NoCount
    /\ NoBuild
    /\ \E par \in {x \in Trees : IsTree(x)} :
          \E pops \in [DOMAIN par -> Populations], focal \in DOMAIN par :
              nn = NewCall(par, pops, focal)

NextNeighbours ==
    \/ FindParent
    \/ ListChildren
    \/ TallyPopulation
    \/ Divide

SpecNeighbours == InitNeighbours /\ [][NextNeighbours]_vars

(* ------------------------ what the claims speak of ---------------------- *)

InAlphabet(x) == \E i \in 1..Len(alleles) : alleles[i] = x

Cells == 0..(Len(alleles) - 1)

MutationIds(t) == 0..(num_mutations(t) - 1)

\* The state a mutation event derives from: the ancestral state of its site
\* when it has no parent, the derived state of its parent otherwise.
EffectiveParentState(t, id) ==
    IF mutation(t, id).parent = NULL
    THEN site(t, mutation(t, id).site).ancestral_state
    ELSE mutation(t, mutation(t, id).parent).derived_state

\* The number of events of t that go from state pa to state da.
EventCount(t, pa, da) ==
    Cardinality({id \in MutationIds(t) :
                    /\ EffectiveParentState(t, id) = pa
                    /\ mutation(t, id).derived_state = da})

AllStatesKnown(t) ==
    /\ \A i \in 1..num_sites(t) : InAlphabet(t.sites[i].ancestral_state)
    /\ \A id \in MutationIds(t) : InAlphabet(mutation(t, id).derived_state)

\* Some event of t has an effective parent state or a derived state outside
\* the alphabet.
SomeEventUnknown(t) ==
    \E id \in MutationIds(t) :
        \/ ~InAlphabet(EffectiveParentState(t, id))
        \/ ~InAlphabet(mutation(t, id).derived_state)

\* Some site of t has an ancestral state outside the alphabet and `n` or more
\* mutation events.
UnknownAncestral(t, n) ==
    \E x \in AllSites(t) :
        /\ ~InAlphabet(site(t, x).ancestral_state)
        /\ Len(site_mutations(t, x)) >= n

\* C1: when every state of the input lies in the alphabet, each cell (i,j) of
\* the matrix count produces (the array it has tallied and the table it
\* prints) is the number of events whose effective parent state is allele i
\* and whose derived state is allele j.
C1_CountsAreEventCounts ==
    \A w \in DOMAIN frames :
        (frames[w].pc = "done" /\ AllStatesKnown(Arg(w))) =>
            \A i \in Cells, j \in Cells :
                /\ frames[w].counts[i][j]
                      = EventCount(Arg(w), alleles[i + 1], alleles[j + 1])
                /\ ParsedTable(frames[w].stdout)[i][j]
                      = EventCount(Arg(w), alleles[i + 1], alleles[j + 1])

\* C1 witness: a finished count over known states with a stacked event whose
\* parent's derived state differs from the ancestral state.
C1_Witness ==
    \E w \in DOMAIN frames :
        /\ frames[w].pc = "done"
        /\ AllStatesKnown(Arg(w))
        /\ \E id \in MutationIds(Arg(w)) :
              /\ mutation(Arg(w), id).parent # NULL
              /\ EffectiveParentState(Arg(w), id)
                    # site(Arg(w), mutation(Arg(w), id).site).ancestral_state

\* C2 as stated: count fails whenever any observed state, a site's ancestral
\* state included, is outside the alphabet, also for a site without events.
C2_FailsOnAnyUnknownState ==
    \A w \in DOMAIN frames :
        (Finished(frames[w]) /\ ~AllStatesKnown(Arg(w))) => frames[w].pc = "raised"

\* C2 amended: count fails (list.index raises ValueError) exactly when some
\* event has an effective parent state or a derived state outside the
\* alphabet; a site with an unknown ancestral state makes it fail when the
\* site has at least one event.
C2_FailsOnUnknownEventState ==
    \A w \in DOMAIN frames :
        Finished(frames[w]) =>
            /\ (frames[w].pc = "raised") = SomeEventUnknown(Arg(w))
            /\ UnknownAncestral(Arg(w), 1) => frames[w].pc = "raised"
            /\ frames[w].pc = "raised" => frames[w].exc = ValueError

\* C2 witness: count has failed on an input with a site of unknown ancestral
\* state that has an event.
C2_Witness ==
    \E w \in DOMAIN frames :
        frames[w].pc = "raised" /\ UnknownAncestral(Arg(w), 1)

\* C3: the elementwise sum of the matrices counted over the two shards of a
\* partition equals the matrix counted over the whole collection.
C3_ShardSum ==
    (\A w \in {"whole", "a", "b"} : frames[w].pc = "done") =>
        MatrixSum(frames["a"].counts, frames["b"].counts) = frames["whole"].counts

\* C3 witness: all three counts have finished and both shards hold events.
C3_Witness ==
    /\ \A w \in {"whole", "a", "b"} : frames[w].pc = "done"
    /\ num_mutations(Arg("a")) > 0
    /\ num_mutations(Arg("b")) > 0

C6_NoPartialResult ==
    \A w \in DOMAIN frames :
        frames[w].pc = "raised" =>
            /\ frames[w].stdout = <<>>
            /\ frames[w].ret = NotReturned
            /\ frames[w].exc = ValueError

\* C6 witness: count has failed after tallying at least one event.
C6_Witness ==
    \E w \in DOMAIN frames :
        /\ frames[w].pc = "raised"
        /\ \E i \in Cells, j \in Cells : frames[w].counts[i][j] > 0

\* The event the next Tally step of invocation w handles.
CurrentEvent(w) == site_mutations(Arg(w), frames[w].s)[frames[w].k + 1]

\* C9: index_of gives, for every allele of the alphabet, the one position
\* that holds it, and fails for every other symbol; each tally step of count
\* adds one to the cell whose row is the position of the event's effective
\* parent state and whose column is the position of its derived state, and
\* fails when either has no position.
C9_IndexOfLookup ==
    /\ [](\A a \in ObservedStates \cup {alleles[i] : i \in 1..Len(alleles)} :
            IF InAlphabet(a)
            THEN /\ ~index(alleles, a).raises
                 /\ \A i \in Cells :
                       (alleles[i + 1] = a) = (i = index(alleles, a).value)
            ELSE index(alleles, a).raises)
    /\ [][\A w \in DOMAIN frames :
            (frames[w].pc = "mutations" /\ frames'[w] # frames[w]
                /\ frames[w].k < Len(site_mutations(Arg(w), frames[w].s))) =>
                LET pa == EffectiveParentState(Arg(w), CurrentEvent(w))
                    da == mutation(Arg(w), CurrentEvent(w)).derived_state
                IN IF InAlphabet(pa) /\ InAlphabet(da)
                   THEN \E i \in Cells, j \in Cells :
                           /\ alleles[i + 1] = pa
                           /\ alleles[j + 1] = da
                           /\ frames'[w].counts
                                 = [frames[w].counts EXCEPT ![i][j] = @ + 1]
                   ELSE /\ frames'[w].pc = "raised"
                        /\ frames'[w].counts = frames[w].counts]_vars

\* C9 witness: count has looked up two different positions for an event and
\* goes on tallying.
C9_Witness ==
    \E w \in DOMAIN frames :
        /\ frames[w].pc = "mutations"
        /\ \E i \in Cells, j \in Cells : i # j /\ frames[w].counts[i][j] > 0

RECURSIVE RowTotal(_, _, _)
\* The sum of the cells 0..j of row i.
RowTotal(c, i, j) == IF j < 0 THEN 0 ELSE c[i][j] + RowTotal(c, i, j - 1)

\* C10: for the three-site scenario the matrix has (A,C) = 1, (G,T) = 1,
\* (T,A) = 1 and 0 elsewhere; the row totals are A = 1, C = 0, G = 1, T = 1.
C10_ScenarioMatrix ==
    \A w \in DOMAIN frames :
        (Arg(w) = Scenario /\ Finished(frames[w])) =>
            /\ frames[w].pc = "done"
            /\ \A i \in 0..3, j \in 0..3 :
                  frames[w].counts[i][j]
                     = IF <<i, j>> \in {<<0, 1>>, <<2, 3>>, <<3, 0>>} THEN 1 ELSE 0
            /\ RowTotal(frames[w].counts, 0, 3) = 1
            /\ RowTotal(frames[w].counts, 1, 3) = 0
            /\ RowTotal(frames[w].counts, 2, 3) = 1
            /\ RowTotal(frames[w].counts, 3, 3) = 1

\* C10 witness: the count over the scenario has finished.
C10_Witness ==
    \E w \in DOMAIN frames : Arg(w) = Scenario /\ frames[w].pc = "done"

\* C11: removing sites that have no mutation event from the input (adding
\* them, read the other way) leaves the outcome and every cell of the matrix
\* as they are.
C11_EmptySitesContributeNothing ==
    (/\ Finished(frames["whole"])
     /\ Finished(frames["a"])
     /\ shards["a"] \subseteq shards["whole"]
     /\ shards["whole"] \ shards["a"] \subseteq EmptySites(ts)) =>
        /\ frames["a"].pc = frames["whole"].pc
        /\ \A i \in Cells, j \in Cells :
              frames["a"].counts[i][j] = frames["whole"].counts[i][j]
        /\ frames["a"].stdout = frames["whole"].stdout

\* C11 witness: both counts are done, the second over fewer sites, and the
\* input has events.
C11_Witness ==
    /\ frames["whole"].pc = "done"
    /\ frames["a"].pc = "done"
    /\ shards["a"] # shards["whole"]
    /\ num_mutations(ts) > 0

\* C12: a call on the same sites, events and alphabet as an earlier call ends
\* the same way with the same matrix, the same printed table and the same
\* result.
C12_Deterministic ==
    (/\ Finished(frames["whole"])
     /\ Finished(frames["a"])
     /\ Arg("a") = Arg("whole")) =>
        /\ frames["a"].pc = frames["whole"].pc
        /\ frames["a"].counts = frames["whole"].counts
        /\ frames["a"].stdout = frames["whole"].stdout
        /\ frames["a"].ret = frames["whole"].ret
        /\ frames["a"].exc = frames["whole"].exc

\* C12 witness: the second call on the same input is done and has tallied
\* events.
C12_Witness ==
    /\ frames["whole"].pc = "done"
    /\ frames["a"].pc = "done"
    /\ Arg("a") = Arg("whole")
    /\ num_mutations(ts) > 0

\* C13: the count over the same sites and events in another order (sites
\* permuted, events permuted, parent references kept) gives the same matrix.
C13_OrderIndependent ==
    (/\ Finished(frames["whole"])
     /\ Finished(frames["a"])
     /\ Arg("a") = Permuted(Arg("whole"), order["a"])) =>
        /\ frames["a"].pc = "done"
        /\ frames["whole"].pc = "done"
        /\ frames["a"].counts = frames["whole"].counts

\* C13 witness: both counts are done, the second over an input whose sites
\* and whose events are in another order, with a stacked event.
C13_Witness ==
    /\ frames["whole"].pc = "done"
    /\ frames["a"].pc = "done"
    /\ order["a"].sites # Identity(num_sites(ts))
    /\ order["a"].mutations # Identity(num_mutations(ts))
    /\ \E id \in MutationIds(ts) : mutation(ts, id).parent # NULL

\* C18 as stated: no site of the samples object comes from a variant that has
\* an allele with a character outside "ATGCatgc*".
C18_InvalidAllelesIgnored ==
    \A k \in 1..Len(samples.sites) :
        \A x \in 1..Len(samples.sites[k].alleles) :
            OtherChars(samples.sites[k].alleles[x]) = {}

\* The first variant of the VCF at position p.
FirstAt(p) ==
    CHOOSE i \in 1..Len(vcf.variants) :
        /\ vcf.variants[i].POS = p
        /\ \A j \in 1..(i - 1) : vcf.variants[j].POS # p

C20_BuildOrder ==
    /\ [](/\ Len(samples.individuals) > 0 => Len(samples.populations) = 2
          /\ Len(samples.sites) > 0 =>
                /\ Len(samples.populations) = 2
                /\ Len(samples.individuals) = Len(vcf.samples))
    /\ [][/\ samples'.populations # samples.populations =>
                (samples.individuals = <<>> /\ samples.sites = <<>>)
          /\ samples'.individuals # samples.individuals => samples.sites = <<>>]_vars

\* C20 witness: the build is done with individuals and sites added.
C20_Witness ==
    /\ build.pc = "done"
    /\ Len(samples.individuals) > 0
    /\ Len(samples.sites) > 0

\* add_populations has returned its list.
PopulationsReturned == build.pc # "add_populations" /\ build.exc # "KeyError"

\* The country of the population that samples holds under this id.
CountryOf(id) == samples.populations[id + 1].metadata.country

\* C21: the list add_populations returns has one id per sample of the VCF, in
\* the order of the samples: the id of the Norway population for a name that
\* starts with "8", the id of the France population for one that starts
\* with "F".
C21_PopulationPerSample ==
    PopulationsReturned =>
        /\ Len(build.populations) = Len(vcf.samples)
        /\ \A k \in 1..Len(vcf.samples) :
              /\ build.populations[k] \in 0..(Len(samples.populations) - 1)
              /\ vcf.samples[k][1] = "8" => CountryOf(build.populations[k]) = "Norway"
              /\ vcf.samples[k][1] = "F" => CountryOf(build.populations[k]) = "France"

\* C21 witness: add_populations has returned the ids of a sample of France
\* followed by a sample of Norway.
C21_Witness ==
    /\ PopulationsReturned
    /\ Len(vcf.samples) = 2
    /\ vcf.samples[1][1] = "F"
    /\ vcf.samples[2][1] = "8"

\* Some sample's genotype of the variant is unphased.
HasUnphased(v) == \E i \in 1..Len(v.genotypes) : v.genotypes[i][3] = FALSE

\* add_diploid_sites is about to read a variant that is no duplicate of the
\* one before it.
AtNewVariant ==
    /\ build.pc = "variants"
    /\ build.i < Len(vcf.variants)
    /\ vcf.variants[build.i + 1].POS # build.pos

\* C22: reading a variant that is no duplicate and has an unphased genotype
\* raises ValueError and adds nothing, so that no site of the samples object
\* is that of a variant with an unphased genotype.
C22_UnphasedRaises ==
    /\ [](\A k \in 1..Len(samples.sites) :
             ~HasUnphased(vcf.variants[FirstAt(samples.sites[k].position)]))
    /\ [][(AtNewVariant /\ HasUnphased(vcf.variants[build.i + 1])) =>
             /\ build'.pc = "raised"
             /\ build'.exc = ValueError
             /\ samples' = samples]_vars

\* C22 witness: the build has failed on a second variant with an unphased
\* genotype, the site of the first variant added.
C22_Witness ==
    /\ build.pc = "raised"
    /\ build.exc = ValueError
    /\ build.i = 1
    /\ HasUnphased(vcf.variants[2])
    /\ vcf.variants[2].POS # vcf.variants[1].POS
    /\ Len(samples.sites) = 1

\* The characters of str before its first "|" (all of them without one).
BeforeBar(str) ==
    LET bars == {i \in 1..Len(str) : str[i] = "|"}
    IN IF bars = {} THEN str
       ELSE SubSeq(str, 1, (CHOOSE i \in bars : \A j \in bars : i <= j) - 1)

\* The AA field of the variant is absent, or its first value is "." or empty.
AncestralUnknown(v) ==
    \/ "AA" \notin DOMAIN v.INFO
    \/ BeforeBar(v.INFO["AA"]) \in {<<".">>, <<>>}

\* The last site of s is a site of variant v with this ancestral allele.
LastSiteOf(s, v, a) ==
    /\ Len(s.sites) > 0
    /\ s.sites[Len(s.sites)].position = v.POS
    /\ s.sites[Len(s.sites)].ancestral_allele = a

\* C23: a site is added with ancestral_allele MISSING_DATA when the first
\* value of AA is absent, "." or empty, and otherwise with the index of the
\* uppercased first value in REF followed by the ALTs, uppercased; when the
\* value is not among them the call fails and adds nothing.
C23_AncestralAllele ==
    [][(AtNewVariant /\ ~HasUnphased(vcf.variants[build.i + 1])) =>
          LET v == vcf.variants[build.i + 1]
              als == <<upper(v.REF)>> \o [x \in 1..Len(v.ALT) |-> upper(v.ALT[x])]
          IN IF AncestralUnknown(v)
             THEN /\ Len(samples'.sites) = Len(samples.sites) + 1
                  /\ LastSiteOf(samples', v, MISSING_DATA)
             ELSE IF \E x \in 1..Len(als) : als[x] = upper(BeforeBar(v.INFO["AA"]))
             THEN /\ Len(samples'.sites) = Len(samples.sites) + 1
                  /\ \E x \in 1..Len(als) :
                        /\ als[x] = upper(BeforeBar(v.INFO["AA"]))
                        /\ LastSiteOf(samples', v, x - 1)
                        /\ samples'.sites[Len(samples'.sites)].alleles = als
             ELSE /\ build'.pc = "raised"
                  /\ samples' = samples]_vars

\* C23 witness: the build is done with a site without a known ancestral
\* allele and a site whose ancestral allele is the first value of an AA field
\* of two values, found at index 1.
C23_Witness ==
    /\ build.pc = "done"
    /\ Len(samples.sites) = 2
    /\ samples.sites[1].ancestral_allele = MISSING_DATA
    /\ samples.sites[2].ancestral_allele = 1
    /\ "AA" \in DOMAIN vcf.variants[2].INFO
    /\ Len(vcf.variants[2].INFO["AA"]) = 3

\* The silent events of t in state x: events whose derived state x is also
\* their effective parent state.
SilentEvents(t, x) ==
    {id \in MutationIds(t) :
        /\ mutation(t, id).derived_state = x
        /\ EffectiveParentState(t, id) = x}

\* C24: silent events are counted like any other event: a finished count
\* holds in each diagonal cell (i, i) the number of silent events in state i.
C24_SilentOnDiagonal ==
    \A w \in DOMAIN frames :
        frames[w].pc = "done" =>
            \A i \in Cells :
                frames[w].counts[i][i] = Cardinality(SilentEvents(Arg(w), alleles[i + 1]))

\* C24 witness: a finished count over an input with a silent event and an
\* event that changes the state.
C24_Witness ==
    \E w \in DOMAIN frames :
        /\ frames[w].pc = "done"
        /\ \E i \in Cells : SilentEvents(Arg(w), alleles[i + 1]) # {}
        /\ \E i \in Cells, j \in Cells : i # j /\ frames[w].counts[i][j] > 0

RECURSIVE CellTotal(_, _)
\* The sum of the cells of the rows 0..i.
CellTotal(c, i) ==
    IF i < 0 THEN 0 ELSE RowTotal(c, i, Len(alleles) - 1) + CellTotal(c, i - 1)

\* The events of t whose effective parent state is x.
EventsFrom(t, x) == {id \in MutationIds(t) : EffectiveParentState(t, id) = x}

\* C25: a finished count has added one to one cell for each event: the cells
\* sum to the number of events of the input, and row i sums to the number of
\* events whose effective parent state is allele i.
C25_CellsSumToEvents ==
    \A w \in DOMAIN frames :
        frames[w].pc = "done" =>
            /\ CellTotal(frames[w].counts, Len(alleles) - 1) = num_mutations(Arg(w))
            /\ \A i \in Cells :
                  RowTotal(frames[w].counts, i, Len(alleles) - 1)
                      = Cardinality(EventsFrom(Arg(w), alleles[i + 1]))

\* C25 witness: a finished count over events from two different effective
\* parent states.
C25_Witness ==
    \E w \in DOMAIN frames :
        /\ frames[w].pc = "done"
        /\ \E i \in Cells, j \in Cells :
              /\ i # j
              /\ EventsFrom(Arg(w), alleles[i + 1]) # {}
              /\ EventsFrom(Arg(w), alleles[j + 1]) # {}

\* add_diploid_sites has stopped with an error, on variant build.i + 1.
SitesFailed == build.pc = "raised" /\ build.exc = ValueError

\* C28: when add_diploid_sites stops with an error, the step that raises
\* leaves the samples object as it is: it holds one site for each position of
\* the earlier variants, and none for the failing variant or a later one.
C28_ErrorKeepsEarlierSites ==
    /\ [](SitesFailed =>
            /\ {samples.sites[k].position : k \in 1..Len(samples.sites)}
                  = {vcf.variants[j].POS : j \in 1..build.i}
            /\ Len(samples.sites) = Cardinality({vcf.variants[j].POS : j \in 1..build.i})
            /\ \A k \in 1..Len(samples.sites) :
                  \A j \in (build.i + 1)..Len(vcf.variants) :
                      samples.sites[k].position # vcf.variants[j].POS)
    /\ [][(build.pc = "variants" /\ build'.pc = "raised") => samples' = samples]_vars

\* C28 witness: the build has failed on a second variant whose ancestral
\* value is not among its alleles; the site of the first variant is there.
C28_Witness ==
    /\ SitesFailed
    /\ build.i = 1
    /\ ~HasUnphased(vcf.variants[2])
    /\ Len(samples.sites) = 1
    /\ samples.sites[1].position = vcf.variants[1].POS

\* The call of find_nearest_neighbour_populations has ended.
CallEnded == nn.pc \in {"done", "raised"}

\* The leaves under the parent of the focal sample other than the focal
\* sample itself.
OtherLeaves ==
    {v \in DOMAIN nn.t :
        /\ v # nn.focal_sample
        /\ Under(nn.t, nn.t[nn.focal_sample], v)
        /\ \A c \in DOMAIN nn.t : nn.t[c] # v}

\* The number x is the fraction a out of b.
IsFraction(x, a, b) == x.num * b = a * x.den

\* C26 as stated: for a focal sample that has a parent the call never fails
\* and returns the fraction of the other leaves under the parent that belong
\* to population 0 and the fraction that belong to another population, two
\* numbers that are not negative and sum to one.
C26_AlwaysProportions ==
    (CallEnded /\ nn.t[nn.focal_sample] # NULL) =>
        /\ nn.pc = "done"
        /\ nn.ret[1].num >= 0
        /\ nn.ret[2].num >= 0
        /\ nn.ret[1].num * nn.ret[2].den + nn.ret[2].num * nn.ret[1].den
              = nn.ret[1].den * nn.ret[2].den
        /\ IsFraction(nn.ret[1],
                      Cardinality({v \in OtherLeaves : nn.population[v] = 0}),
                      Cardinality(OtherLeaves))
        /\ IsFraction(nn.ret[2],
                      Cardinality({v \in OtherLeaves : nn.population[v] # 0}),
                      Cardinality(OtherLeaves))

\* C27: the call returns (0, 0) when the focal sample has no parent in the
\* tree, and in no other case.
C27_ZeroPairIffNoParent ==
    CallEnded =>
        ((nn.pc = "done" /\ nn.ret = <<Zero, Zero>>) <=> nn.t[nn.focal_sample] = NULL)

\* C27 witness: the call has returned for a focal sample with a parent under
\* which one of the two other leaves belongs to population 0.
C27_Witness ==
    /\ nn.pc = "done"
    /\ nn.t[nn.focal_sample] # NULL
    /\ Cardinality(OtherLeaves) = 2
    /\ Cardinality({v \in OtherLeaves : nn.population[v] = 0}) = 1

====
